---- MODULE Spec2Model ----
(***************************************************************************)
(* Model of grv's configuration command parser (cmd/grv/config_parse.go).  *)
(*                                                                         *)
(* A ConfigParser pulls tokens from its ConfigScanner and turns them into  *)
(* commands.  The scanner is an external collaborator: here it is the      *)
(* environment, which hands out one token (or fails) per Scan call.  One   *)
(* action of the model is one Scan call together with everything the       *)
(* parser does with its result before the next Scan call.                  *)
(***************************************************************************)
EXTENDS Integers, Sequences, FiniteSets, TLC

VARIABLES
    scanner,      \* the ConfigScanner the parser owns (its observable state)
    inputSource,  \* ConfigParser.inputSource
    call,         \* the activation of Parse: position, locals, return values
    consumed,     \* history: what each Scan call of this Parse call returned,
                  \*   by kind, whitespace and comments left out
    line,         \* history: the tokens handed out for the command being
                  \*   parsed, from the command position on (once they cannot
                  \*   begin a grammatical line, only the first of them and
                  \*   the first one that does not fit are kept)
    grammatical,  \* history: whether those tokens begin ("prefix"), make up
                  \*   ("complete") or cannot begin ("ungrammatical") a line
                  \*   of the command language; "blank": none handed out
                  \*   yet; "broken": the scanner failed
    discarded,    \* history: what each Scan call of this Parse call's recovery
                  \*   returned, by kind, whitespace and comments left out
    prev,         \* history: how the previous Parse call ended
    parsers,      \* several ConfigParsers side by side: parsers[p] is the
                  \*   ConfigParser p (the scanner it points to, its
                  \*   inputSource)
    scanners,     \* the ConfigScanners there are, each with the stream it
                  \*   was created on and how much of it it has handed out
    calls,        \* calls[p]: the activation of parser p's Parse
    results,      \* history: what parser p's Parse calls have returned
    starts        \* history: where parser p's scanner stood when p's last
                  \*   Parse call began

\* One parser fed by the environment token by token.
soloVars == <<scanner, inputSource, call, consumed, line, grammatical, discarded, prev>>

\* Several parsers, each created on a stream given in advance.
twinVars == <<parsers, scanners, calls, results, starts>>

vars == <<soloVars, twinVars>>

(***************************************************************************)
(* Bounds of the model.                                                    *)
(***************************************************************************)
MaxBlank == 2     \* Terminators read at command position in one call
MaxArgs == 2      \* tokens a variable-arity command accumulates
MaxDiscard == 2   \* tokens recovery discards before the one it stops at
MaxStream == 6    \* tokens before EndOfInput in the finite-stream specification
MaxTwin == 3      \* tokens before EndOfInput of a stream given in advance
MaxLines == 4     \* tokens before EndOfInput of a stream of several lines

(***************************************************************************)
(* Tokens (ConfigToken): kind, text and whether a lexical error is         *)
(* embedded (token.err != nil).                                            *)
(***************************************************************************)
CtkWord == "CtkWord"
CtkOption == "CtkOption"
CtkWhiteSpace == "CtkWhiteSpace"
CtkComment == "CtkComment"
CtkTerminator == "CtkTerminator"
CtkEOF == "CtkEOF"
CtkInvalid == "CtkInvalid"

Tok(type, value, lexErr) == [tokenType |-> type, value |-> value, err |-> lexErr]

NilToken == Tok("nil", "", FALSE)

\* The command names, config_parse.go lines 10-22.
setCommand == "set"
themeCommand == "theme"
mapCommand == "map"
unmapCommand == "unmap"
quitCommand == "q"
addtabCommand == "addtab"
removetabCommand == "rmtab"
addviewCommand == "addview"
vsplitCommand == "vsplit"
hsplitCommand == "hsplit"
splitCommand == "split"

CommandNames ==
    { setCommand, themeCommand, mapCommand, unmapCommand, quitCommand,
      addtabCommand, removetabCommand, addviewCommand, vsplitCommand,
      hsplitCommand, splitCommand }

(***************************************************************************)
(* The grammar registry.                                                   *)
(***************************************************************************)
commandDescriptors ==
    [ name \in CommandNames |->
        CASE name = setCommand ->
               [tokenTypes |-> <<CtkWord, CtkWord>>, varArgs |-> FALSE,
                constructor |-> "setCommandConstructor"]
          [] name = themeCommand ->
               [tokenTypes |-> <<CtkOption, CtkWord, CtkOption, CtkWord,
                                 CtkOption, CtkWord, CtkOption, CtkWord>>,
                varArgs |-> FALSE,
                constructor |-> "themeCommandConstructor"]
          [] name = mapCommand ->
               [tokenTypes |-> <<CtkWord, CtkWord, CtkWord>>, varArgs |-> FALSE,
                constructor |-> "mapCommandConstructor"]
          [] name = unmapCommand ->
               [tokenTypes |-> <<CtkWord, CtkWord>>, varArgs |-> FALSE,
                constructor |-> "unmapCommandConstructor"]
          [] name = quitCommand ->
               [tokenTypes |-> <<>>, varArgs |-> FALSE,
                constructor |-> "quitCommandConstructor"]
          [] name = addtabCommand ->
               [tokenTypes |-> <<CtkWord>>, varArgs |-> FALSE,
                constructor |-> "newTabCommandConstructor"]
          [] name = removetabCommand ->
               [tokenTypes |-> <<>>, varArgs |-> FALSE,
                constructor |-> "newRemoveTabCommandConstructor"]
          [] name = addviewCommand ->
               [tokenTypes |-> <<>>, varArgs |-> TRUE,
                constructor |-> "addViewCommandConstructor"]
          [] name = vsplitCommand ->
               [tokenTypes |-> <<>>, varArgs |-> TRUE,
                constructor |-> "splitViewCommandConstructor"]
          [] name = hsplitCommand ->
               [tokenTypes |-> <<>>, varArgs |-> TRUE,
                constructor |-> "splitViewCommandConstructor"]
          [] name = splitCommand ->
               [tokenTypes |-> <<>>, varArgs |-> TRUE,
                constructor |-> "splitViewCommandConstructor"] ]

(***************************************************************************)
(* Errors.  An error is the message built by generateConfigError: the      *)
(* prefix with the source label and the token's position (written when the *)
(* label is non-empty; the position itself is not modelled), the message   *)
(* with its arguments, and the token's lexical error when it carries one.  *)
(***************************************************************************)
NilError == [msg |-> "nil", args |-> <<>>, prefix |-> "", lexErr |-> FALSE]

\* The error a failing ConfigScanner.Scan returns; the parser passes it on.
ScanError == [msg |-> "scanner error", args |-> <<>>, prefix |-> "", lexErr |-> FALSE]

generateConfigError(source, token, errorMessage, args) ==
    [msg |-> errorMessage, args |-> args,
     prefix |-> IF source # "" THEN source \o ":line:col " ELSE "",
     lexErr |-> token.err]

generateParseError(source, token, errorMessage, args) ==
    generateConfigError(source, token, errorMessage, args)

(***************************************************************************)
(* Commands (the ConfigCommand family).                                    *)
(***************************************************************************)
NilCommand == [type |-> "nil"]

CoDynamic == "CoDynamic"
CoHorizontal == "CoHorizontal"
CoVertical == "CoVertical"

\* tokens[1:] of Go
Rest(tokens) == SubSeq(tokens, 2, Len(tokens))

setCommandConstructor(source, commandToken, tokens) ==
    [command |-> [type |-> "SetCommand", variable |-> tokens[1], value |-> tokens[2]],
     err |-> NilError]

\* Mutant: a switch met again does not overwrite the value it already has.
RECURSIVE themeOptionsFirstWins(_, _, _, _)
themeOptionsFirstWins(source, themeCmd, tokens, i) ==
    IF i + 1 > Len(tokens)
    THEN [command |-> themeCmd, err |-> NilError]
    ELSE LET optionToken == tokens[i]
             valueToken == tokens[i + 1]
             keep(old) == IF old = NilToken THEN valueToken ELSE old
         IN  CASE optionToken.value = "--name" ->
                    themeOptionsFirstWins(source,
                        [themeCmd EXCEPT !.name = keep(@)], tokens, i + 2)
               [] optionToken.value = "--component" ->
                    themeOptionsFirstWins(source,
                        [themeCmd EXCEPT !.component = keep(@)], tokens, i + 2)
               [] optionToken.value = "--bgcolor" ->
                    themeOptionsFirstWins(source,
                        [themeCmd EXCEPT !.bgcolor = keep(@)], tokens, i + 2)
               [] optionToken.value = "--fgcolor" ->
                    themeOptionsFirstWins(source,
                        [themeCmd EXCEPT !.fgcolor = keep(@)], tokens, i + 2)
               [] OTHER ->
                    [command |-> NilCommand,
                     err |-> generateParseError(source, optionToken,
                                 "Invalid option for theme command", <<optionToken.value>>)]

\* The theme constructor's loop over (option, value) pairs from token i on
\* (i is the 1-based index of the pair's option; Go's i is 0-based).
RECURSIVE themeOptions(_, _, _, _)
themeOptions(source, themeCmd, tokens, i) ==
    IF i + 1 > Len(tokens)
    THEN [command |-> themeCmd, err |-> NilError]
    ELSE LET optionToken == tokens[i]
             valueToken == tokens[i + 1]
         IN  CASE optionToken.value = "--name" ->
                    themeOptions(source, [themeCmd EXCEPT !.name = valueToken], tokens, i + 2)
               [] optionToken.value = "--component" ->
                    themeOptions(source, [themeCmd EXCEPT !.component = valueToken], tokens, i + 2)
               [] optionToken.value = "--bgcolor" ->
                    themeOptions(source, [themeCmd EXCEPT !.bgcolor = valueToken], tokens, i + 2)
               [] optionToken.value = "--fgcolor" ->
                    themeOptions(source, [themeCmd EXCEPT !.fgcolor = valueToken], tokens, i + 2)
               [] OTHER ->
                    [command |-> NilCommand,
                     err |-> generateParseError(source, optionToken,
                                 "Invalid option for theme command", <<optionToken.value>>)]

\* Mutant: only the first (option, value) pair is looked at.
themeCommandConstructorFirstPairOnly(source, commandToken, tokens) ==
    themeOptions(source,
                 [type |-> "ThemeCommand", name |-> NilToken, component |-> NilToken,
                  bgcolor |-> NilToken, fgcolor |-> NilToken],
                 SubSeq(tokens, 1, 2), 1)

themeCommandConstructor(source, commandToken, tokens) ==
    themeOptions(source,
                 [type |-> "ThemeCommand", name |-> NilToken, component |-> NilToken,
                  bgcolor |-> NilToken, fgcolor |-> NilToken],
                 tokens, 1)

\* Mutant: from and to change places.
mapCommandConstructorSwapped(source, commandToken, tokens) ==
    [command |-> [type |-> "MapCommand", view |-> tokens[1], from |-> tokens[3],
                  to |-> tokens[2]],
     err |-> NilError]

mapCommandConstructor(source, commandToken, tokens) ==
    [command |-> [type |-> "MapCommand", view |-> tokens[1], from |-> tokens[2],
                  to |-> tokens[3]],
     err |-> NilError]

unmapCommandConstructor(source, commandToken, tokens) ==
    [command |-> [type |-> "UnmapCommand", view |-> tokens[1], from |-> tokens[2]],
     err |-> NilError]

quitCommandConstructor(source, commandToken, tokens) ==
    [command |-> [type |-> "QuitCommand"], err |-> NilError]

newTabCommandConstructor(source, commandToken, tokens) ==
    [command |-> [type |-> "NewTabCommand", tabName |-> tokens[1]], err |-> NilError]

newRemoveTabCommandConstructor(source, commandToken, tokens) ==
    [command |-> [type |-> "RemoveTabCommand"], err |-> NilError]

\* Mutant: the check for an empty argument list is missing.
addViewCommandConstructorUnchecked(source, commandToken, tokens) ==
    [command |-> [type |-> "AddViewCommand",
                  view |-> IF Len(tokens) < 1 THEN NilToken ELSE tokens[1],
                  args |-> IF Len(tokens) < 1 THEN <<>> ELSE Rest(tokens)],
     err |-> NilError]

addViewCommandConstructor(source, commandToken, tokens) ==
    IF Len(tokens) < 1
    THEN [command |-> NilCommand,
          err |-> generateParseError(source, commandToken,
                      "Invalid command. Usage: [VIEW] [ARGS...]", <<commandToken.value>>)]
    ELSE [command |-> [type |-> "AddViewCommand", view |-> tokens[1], args |-> Rest(tokens)],
          err |-> NilError]

splitViewCommandConstructor(source, commandToken, tokens) ==
    LET splitViewCommand == commandToken.value
    IN  IF Len(tokens) < 1
        THEN [command |-> NilCommand,
              err |-> generateParseError(source, commandToken,
                          "Invalid command. Usage: [VIEW] [ARGS...]", <<splitViewCommand>>)]
        ELSE IF splitViewCommand \notin {splitCommand, hsplitCommand, vsplitCommand}
        THEN [command |-> NilCommand,
              err |-> generateParseError(source, commandToken,
                          "Unrecognised command", <<splitViewCommand>>)]
        ELSE [command |-> [type |-> "SplitViewCommand",
                           orientation |->
                               CASE splitViewCommand = splitCommand -> CoDynamic
                                 [] splitViewCommand = hsplitCommand -> CoHorizontal
                                 [] splitViewCommand = vsplitCommand -> CoVertical,
                           view |-> tokens[1], args |-> Rest(tokens)],
              err |-> NilError]

\* commandDescriptor.constructor(parser, commandToken, tokens)
Construct(descriptor, source, commandToken, tokens) ==
    CASE descriptor.constructor = "setCommandConstructor" ->
           setCommandConstructor(source, commandToken, tokens)
      [] descriptor.constructor = "themeCommandConstructor" ->
           themeCommandConstructor(source, commandToken, tokens)
      [] descriptor.constructor = "mapCommandConstructor" ->
           mapCommandConstructor(source, commandToken, tokens)
      [] descriptor.constructor = "unmapCommandConstructor" ->
           unmapCommandConstructor(source, commandToken, tokens)
      [] descriptor.constructor = "quitCommandConstructor" ->
           quitCommandConstructor(source, commandToken, tokens)
      [] descriptor.constructor = "newTabCommandConstructor" ->
           newTabCommandConstructor(source, commandToken, tokens)
      [] descriptor.constructor = "newRemoveTabCommandConstructor" ->
           newRemoveTabCommandConstructor(source, commandToken, tokens)
      [] descriptor.constructor = "addViewCommandConstructor" ->
           addViewCommandConstructor(source, commandToken, tokens)
      [] descriptor.constructor = "splitViewCommandConstructor" ->
           splitViewCommandConstructor(source, commandToken, tokens)

(***************************************************************************)
(* The activation of Parse.  pc is the loop whose next Scan call is        *)
(* pending ("Idle": not called yet; "Ready": the last call has returned    *)
(* and the fields hold what it returned).  "return" marks a frame whose callee has returned to    *)
(* Parse; ParseTail resolves it at once.                                   *)
(***************************************************************************)
NilDescriptor == [tokenTypes |-> <<>>, varArgs |-> FALSE, constructor |-> "nil"]

NewCall ==
    [pc |-> "Parse", commandToken |-> NilToken, commandDescriptor |-> NilDescriptor,
     tokens |-> <<>>, command |-> NilCommand, eof |-> FALSE, err |-> NilError]

\* Mutant: Parse returns without recovery.
ParseTailWithoutRecovery(frame) ==
    IF frame.pc # "return" THEN frame
    ELSE [frame EXCEPT !.pc = "Ready", !.tokens = <<>>]

\* Parse, lines 196-200: recovery when an error is set, then return.
ParseTail(frame) ==
    IF frame.pc # "return" THEN frame
    ELSE IF frame.err # NilError
    THEN [frame EXCEPT !.pc = "discardTokensUntilNextCommand", !.tokens = <<>>]
    ELSE [frame EXCEPT !.pc = "Ready", !.tokens = <<>>]

\* The call of the descriptor's constructor and the return that follows it
\* (lines 295-297 and 323-324).
CallConstructor(source, frame) ==
    LET built == Construct(frame.commandDescriptor, source,
                           frame.commandToken, frame.tokens)
    IN  [frame EXCEPT !.command = built.command, !.err = built.err, !.pc = "return"]

\* Mutant: command names are looked up without regard to case.
LookupIgnoringCase(value) ==
    LET lower == IF value = "SET" THEN "set" ELSE value
    IN  IF lower \in DOMAIN commandDescriptors
        THEN [ok |-> TRUE, commandDescriptor |-> commandDescriptors[lower]]
        ELSE [ok |-> FALSE, commandDescriptor |-> NilDescriptor]

\* Mutant: addview is routed to the descriptor of split.
LookupMisrouted(value) ==
    IF value = addviewCommand
    THEN [ok |-> TRUE, commandDescriptor |-> commandDescriptors[splitCommand]]
    ELSE IF value \in DOMAIN commandDescriptors
    THEN [ok |-> TRUE, commandDescriptor |-> commandDescriptors[value]]
    ELSE [ok |-> FALSE, commandDescriptor |-> NilDescriptor]

\* commandDescriptors[commandToken.value], line 259: the descriptor, and
\* whether there is one.
Lookup(value) ==
    IF value \in DOMAIN commandDescriptors
    THEN [ok |-> TRUE, commandDescriptor |-> commandDescriptors[value]]
    ELSE [ok |-> FALSE, commandDescriptor |-> NilDescriptor]

\* parseCommand up to its first Scan call, lines 258-271.
parseCommand(source, frame, commandToken) ==
    LET found == Lookup(commandToken.value)
        f == [frame EXCEPT !.commandToken = commandToken,
                           !.commandDescriptor = found.commandDescriptor,
                           !.tokens = <<>>]
    IN  IF ~found.ok
        THEN [f EXCEPT !.err = generateParseError(source, commandToken,
                                   "Invalid command", <<commandToken.value>>),
                       !.pc = "return"]
        ELSE IF found.commandDescriptor.varArgs
        THEN [f EXCEPT !.pc = "parseVarArgsCommand"]
        ELSE IF Len(found.commandDescriptor.tokenTypes) = 0
        THEN CallConstructor(source, f)
        ELSE [f EXCEPT !.pc = "parseCommand"]

\* Mutant: EndOfInput is not told apart from any other unexpected token.
argumentErrorWithoutEOF(source, res, expectedConfigTokenType) ==
    LET token == res.token
    IN  CASE res.err ->
               [err |-> ScanError, eof |-> FALSE]
          [] ~res.err /\ token.err ->
               [err |-> generateParseError(source, token, "Syntax Error", <<>>),
                eof |-> FALSE]
          [] ~res.err /\ ~token.err /\ token.tokenType # expectedConfigTokenType ->
               [err |-> generateParseError(source, token, "Expected but got",
                            <<expectedConfigTokenType, token.tokenType, token.value>>),
                eof |-> FALSE]
          [] OTHER ->
               [err |-> NilError, eof |-> FALSE]

\* The switch of parseCommand's loop, lines 276-290: the error and the eof
\* flag it returns with, NilError when the token is the expected one.
argumentError(source, res, expectedConfigTokenType) ==
    LET token == res.token
    IN  CASE res.err ->
               [err |-> ScanError, eof |-> FALSE]
          [] ~res.err /\ token.err ->
               [err |-> generateParseError(source, token, "Syntax Error", <<>>),
                eof |-> FALSE]
          [] ~res.err /\ ~token.err /\ token.tokenType = CtkEOF ->
               [err |-> generateParseError(source, token, "Unexpected EOF", <<>>),
                eof |-> TRUE]
          [] ~res.err /\ ~token.err /\ token.tokenType # CtkEOF
                /\ token.tokenType # expectedConfigTokenType ->
               [err |-> generateParseError(source, token, "Expected but got",
                            <<expectedConfigTokenType, token.tokenType, token.value>>),
                eof |-> FALSE]
          [] OTHER ->
               [err |-> NilError, eof |-> FALSE]

\* Mutant: the token's kind is not compared with the expected one.
parseCommandArgumentOfAnyKind(source, frame, res) ==
    LET tokenTypes == frame.commandDescriptor.tokenTypes
        failure == argumentError(source, res, tokenTypes[Len(frame.tokens) + 1])
    IN  IF failure.err # NilError /\ failure.err.msg # "Expected but got"
        THEN [frame EXCEPT !.err = failure.err, !.eof = failure.eof, !.pc = "return"]
        ELSE LET f == [frame EXCEPT !.tokens = Append(@, res.token)]
             IN  IF Len(f.tokens) < Len(tokenTypes) THEN f
                 ELSE CallConstructor(source, f)

\* One iteration of parseCommand's loop on the result of its Scan call, and
\* the constructor call once the loop is done, lines 271-297.
parseCommandArgument(source, frame, res) ==
    LET tokenTypes == frame.commandDescriptor.tokenTypes
        failure == argumentError(source, res, tokenTypes[Len(frame.tokens) + 1])
    IN  IF failure.err # NilError
        THEN [frame EXCEPT !.err = failure.err, !.eof = failure.eof, !.pc = "return"]
        ELSE LET f == [frame EXCEPT !.tokens = Append(@, res.token)]
             IN  IF Len(f.tokens) < Len(tokenTypes) THEN f
                 ELSE CallConstructor(source, f)

\* Mutant: a token's lexical error is not looked at.
parseVarArgsCommandTakingAnyToken(source, frame, res) ==
    LET token == res.token
    IN  CASE res.err ->
               [frame EXCEPT !.err = ScanError, !.pc = "return"]
          [] ~res.err /\ token.tokenType \in {CtkEOF, CtkTerminator} ->
               CallConstructor(source, frame)
          [] OTHER ->
               [frame EXCEPT !.tokens = Append(@, token)]

\* Mutant: EndOfInput ending the arguments is reported with the command.
parseVarArgsCommandReportingEOF(source, frame, res) ==
    LET token == res.token
    IN  CASE res.err ->
               [frame EXCEPT !.err = ScanError, !.pc = "return"]
          [] ~res.err /\ token.err ->
               [frame EXCEPT !.err = generateParseError(source, token, "Syntax Error", <<>>),
                             !.pc = "return"]
          [] ~res.err /\ ~token.err /\ token.tokenType = CtkEOF ->
               [CallConstructor(source, frame) EXCEPT !.eof = TRUE]
          [] ~res.err /\ ~token.err /\ token.tokenType = CtkTerminator ->
               CallConstructor(source, frame)
          [] OTHER ->
               [frame EXCEPT !.tokens = Append(@, token)]

\* One iteration of parseVarArgsCommand's loop on the result of its Scan
\* call, and the constructor call once the loop is left, lines 300-325.
parseVarArgsCommand(source, frame, res) ==
    LET token == res.token
    IN  CASE res.err ->
               [frame EXCEPT !.err = ScanError, !.pc = "return"]
          [] ~res.err /\ token.err ->
               [frame EXCEPT !.err = generateParseError(source, token, "Syntax Error", <<>>),
                             !.pc = "return"]
          [] ~res.err /\ ~token.err /\ token.tokenType \in {CtkEOF, CtkTerminator} ->
               CallConstructor(source, frame)
          [] OTHER ->
               [frame EXCEPT !.tokens = Append(@, token)]

\* Mutant: eof is not set.
endOfInputUnreported(frame) ==
    [frame EXCEPT !.pc = "return"]

\* Parse's case CtkEOF, lines 183-184.
endOfInput(frame) ==
    [frame EXCEPT !.eof = TRUE, !.pc = "return"]

\* Mutant: Parse's switch has no case for CtkOption.
ParseWithoutOptionCase(source, frame, res) ==
    LET token == res.token
    IN  IF res.err
        THEN [frame EXCEPT !.err = ScanError, !.pc = "Ready"]
        ELSE CASE token.tokenType = CtkWord ->
                    ParseTail(parseCommand(source, frame, token))
               [] token.tokenType = CtkTerminator ->
                    frame
               [] token.tokenType = CtkEOF ->
                    ParseTail(endOfInput(frame))
               [] token.tokenType = CtkInvalid ->
                    ParseTail([frame EXCEPT
                        !.err = generateParseError(source, token, "Syntax Error", <<>>),
                        !.pc = "return"])
               [] OTHER ->
                    ParseTail([frame EXCEPT
                        !.err = generateParseError(source, token, "Unexpected token",
                                                   <<token.value>>),
                        !.pc = "return"])

\* One iteration of Parse's loop on the result of its Scan call, lines 172-201.
Parse(source, frame, res) ==
    LET token == res.token
    IN  IF res.err
        THEN [frame EXCEPT !.err = ScanError, !.pc = "Ready"]
        ELSE CASE token.tokenType = CtkWord ->
                    ParseTail(parseCommand(source, frame, token))
               [] token.tokenType = CtkTerminator ->
                    frame
               [] token.tokenType = CtkEOF ->
                    ParseTail(endOfInput(frame))
               [] token.tokenType = CtkOption ->
                    ParseTail([frame EXCEPT
                        !.err = generateParseError(source, token, "Unexpected Option",
                                                   <<token.value>>),
                        !.pc = "return"])
               [] token.tokenType = CtkInvalid ->
                    ParseTail([frame EXCEPT
                        !.err = generateParseError(source, token, "Syntax Error", <<>>),
                        !.pc = "return"])
               [] OTHER ->
                    ParseTail([frame EXCEPT
                        !.err = generateParseError(source, token, "Unexpected token",
                                                   <<token.value>>),
                        !.pc = "return"])

\* Mutant: recovery hands the scanner's error to Parse, which returns it.
discardTokensReportingFailure(frame, res) ==
    IF res.err
    THEN [frame EXCEPT !.err = ScanError, !.pc = "Ready"]
    ELSE IF res.token.tokenType = CtkTerminator \/ res.token.tokenType = CtkEOF
    THEN [frame EXCEPT !.pc = "Ready"]
    ELSE frame

\* One iteration of discardTokensUntilNextCommand's loop on the result of its
\* Scan call, lines 246-256; Parse returns when the loop is left.
discardTokensUntilNextCommand(frame, res) ==
    IF res.err \/ res.token.tokenType = CtkTerminator \/ res.token.tokenType = CtkEOF
    THEN [frame EXCEPT !.pc = "Ready"]
    ELSE frame

\* Mutant: comments are not skipped.
scanSkipsWhiteSpaceOnly(res) ==
    ~res.err /\ res.token.tokenType = CtkWhiteSpace

\* scan, lines 208-221: whether its loop goes round again on this result.
scanSkips(res) ==
    ~res.err /\ res.token.tokenType \in {CtkWhiteSpace, CtkComment}

\* Mutant: parseVarArgsCommand reads the scanner directly, white space and
\* comments included.
StepWithRawVarArgs(source, frame, res) ==
    IF scanSkips(res) /\ frame.pc # "parseVarArgsCommand" THEN frame
    ELSE CASE frame.pc = "Parse" ->
                Parse(source, frame, res)
           [] frame.pc = "parseCommand" ->
                ParseTail(parseCommandArgument(source, frame, res))
           [] frame.pc = "parseVarArgsCommand" ->
                ParseTail(parseVarArgsCommand(source, frame, res))
           [] frame.pc = "discardTokensUntilNextCommand" ->
                discardTokensUntilNextCommand(frame, res)

\* What the activation does with the result of the Scan call it was waiting
\* for, whichever loop it is in: scan's loop goes round again on white space
\* and comments, anything else goes to the loop that called scan.
Step(source, frame, res) ==
    IF scanSkips(res) THEN frame
    ELSE CASE frame.pc = "Parse" ->
                Parse(source, frame, res)
           [] frame.pc = "parseCommand" ->
                ParseTail(parseCommandArgument(source, frame, res))
           [] frame.pc = "parseVarArgsCommand" ->
                ParseTail(parseVarArgsCommand(source, frame, res))
           [] frame.pc = "discardTokensUntilNextCommand" ->
                discardTokensUntilNextCommand(frame, res)

\* Mutant: the error of the previous call is still there when Parse is entered.
EntryKeepingError(frame) ==
    [NewCall EXCEPT !.err = frame.err]

\* Parse is entered, line 169: its results and locals start from their zero
\* values, whatever the activation before it (frame) left behind.
Entry(frame) == NewCall

\* What Parse returns, line 200.
Result(frame) == [command |-> frame.command, eof |-> frame.eof, err |-> frame.err]

\* Mutant: every parser is given the scanner of parser 1.
NewConfigParserSharingScanner(p, source) ==
    [scanner |-> 1, inputSource |-> source]

\* NewConfigParser, lines 160-165: parser p gets a scanner of its own (the
\* scanner created for p is scanner p) and the source label.
NewConfigParser(p, source) ==
    [scanner |-> p, inputSource |-> source]

(***************************************************************************)
(* The scanner.  A Scan call returns a token or fails.  Once it has        *)
(* returned EndOfInput it returns EndOfInput again; a stream of bounded    *)
(* length (budget >= 0) reaches EndOfInput when the budget is used up.     *)
(***************************************************************************)
Returned(t) == [token |-> t, err |-> FALSE]
Failed == [token |-> NilToken, err |-> TRUE]

EOFToken == Tok(CtkEOF, "", FALSE)
TerminatorToken == Tok(CtkTerminator, "\n", FALSE)
InvalidToken == Tok(CtkInvalid, "'", TRUE)
Insignificant == { Tok(CtkWhiteSpace, " ", FALSE), Tok(CtkComment, "#", FALSE) }

OtherWords == {"bogus", "SET"}
ArgWords == {"a", "b"}
Options == {"--name", "--component", "--bgcolor", "--fgcolor", "--bogus", "--Name"}

WordTokens(values) == { Tok(CtkWord, v, FALSE) : v \in values }
OptionTokens == { Tok(CtkOption, v, FALSE) : v \in Options }

\* The tokens the model lets the scanner hand out next, by where the parser is.
Vocabulary ==
    CASE call.pc = "Parse" ->
           WordTokens(CommandNames \cup OtherWords) \cup OptionTokens
             \cup {InvalidToken, EOFToken} \cup Insignificant
             \cup (IF Len(consumed) < MaxBlank THEN {TerminatorToken} ELSE {})
      [] call.pc = "parseCommand" ->
           WordTokens(ArgWords) \cup OptionTokens
             \cup {InvalidToken, EOFToken, TerminatorToken} \cup Insignificant
      [] call.pc = "parseVarArgsCommand" ->
           {InvalidToken, EOFToken, TerminatorToken} \cup Insignificant
             \cup (IF Len(call.tokens) < MaxArgs
                   THEN WordTokens(ArgWords) \cup OptionTokens ELSE {})
      [] call.pc = "discardTokensUntilNextCommand" ->
           {EOFToken, TerminatorToken} \cup Insignificant
             \cup (IF Len(discarded) < MaxDiscard
                   THEN {Tok(CtkWord, "a", FALSE), InvalidToken} ELSE {})
      [] OTHER -> {}

Scan(s, vocabulary) ==
    IF s.eof \/ s.budget = 0
    THEN {Returned(EOFToken)}
    ELSE { Returned(t) : t \in vocabulary } \cup (IF s.mayFail THEN {Failed} ELSE {})

\* The scanner after it returned res.
Scanned(s, res) ==
    IF s.eof \/ s.budget = 0 THEN [s EXCEPT !.eof = TRUE]
    ELSE [s EXCEPT !.eof = (~res.err /\ res.token.tokenType = CtkEOF),
                   !.budget = IF @ > 0 /\ ~(~res.err /\ res.token.tokenType = CtkEOF)
                              THEN @ - 1 ELSE @]

KindOf(res) == IF res.err THEN "ScanError" ELSE res.token.tokenType

(***************************************************************************)
(* A scanner created on a stream given in advance: it hands the stream's   *)
(* tokens out in order, then EndOfInput again and again.                   *)
(***************************************************************************)
NewConfigScanner(stream) == [stream |-> stream, pos |-> 1]

ScanStream(sc) ==
    IF sc.pos > Len(sc.stream) THEN Returned(EOFToken) ELSE Returned(sc.stream[sc.pos])

ScannedStream(sc) ==
    IF sc.pos > Len(sc.stream) THEN sc ELSE [sc EXCEPT !.pos = @ + 1]

\* What is left of the scanner's stream.
Remaining(sc) == SubSeq(sc.stream, sc.pos, Len(sc.stream))

\* One Parse call run from activation frame to its return on scanner sc: the
\* activation at the return and the scanner it leaves.
RECURSIVE RunParse(_, _, _)
RunParse(source, sc, frame) ==
    IF frame.pc = "Ready" THEN [call |-> frame, scanner |-> sc]
    ELSE RunParse(source, ScannedStream(sc), Step(source, frame, ScanStream(sc)))

\* What the first n Parse calls of a parser with this source label return
\* when it alone reads scanner sc.
RECURSIVE ParseAll(_, _, _)
ParseAll(source, sc, n) ==
    IF n = 0 THEN <<>>
    ELSE LET run == RunParse(source, sc, Entry(NewCall))
         IN  <<Result(run.call)>> \o ParseAll(source, run.scanner, n - 1)

(***************************************************************************)
(* How a call ended, for the next call's history.                          *)
(***************************************************************************)
FixedTypes == {"SetCommand", "ThemeCommand", "MapCommand", "UnmapCommand",
               "QuitCommand", "NewTabCommand", "RemoveTabCommand"}
VarArgsTypes == {"AddViewCommand", "SplitViewCommand"}

Outcome(frame) ==
    CASE frame.err # NilError -> "error"
      [] frame.err = NilError /\ frame.eof -> "eof"
      [] frame.err = NilError /\ ~frame.eof /\ frame.command.type \in FixedTypes -> "fixed"
      [] frame.err = NilError /\ ~frame.eof /\ frame.command.type \in VarArgsTypes -> "varargs"
      [] OTHER -> "none"

(***************************************************************************)
(* The command language, as the histories see it (command table of the     *)
(* configuration language): what a line must look like, told from the      *)
(* tokens the scanner handed out and nothing the parser computed.          *)
(***************************************************************************)
FixedGrammar ==
    [ set    |-> <<CtkWord, CtkWord>>,
      theme  |-> <<CtkOption, CtkWord, CtkOption, CtkWord,
                   CtkOption, CtkWord, CtkOption, CtkWord>>,
      map    |-> <<CtkWord, CtkWord, CtkWord>>,
      unmap  |-> <<CtkWord, CtkWord>>,
      q      |-> <<>>,
      addtab |-> <<CtkWord>>,
      rmtab  |-> <<>> ]
FixedNames == DOMAIN FixedGrammar
VarArgsNames == {"addview", "split", "hsplit", "vsplit"}
ThemeSwitches == {"--name", "--component", "--bgcolor", "--fgcolor"}

IsLineEnd(t) == t.tokenType \in {CtkTerminator, CtkEOF}

\* l: the significant tokens handed out from the command position on.
LineStatus(l) ==
    LET name == l[1].value
        n == Len(l) - 1
    IN  CASE \E i \in 1..Len(l) : l[i].err -> "ungrammatical"
          [] l[1].tokenType = CtkWord /\ name \in FixedNames
                /\ \A i \in 1..Len(l) : ~l[i].err ->
               IF /\ n <= Len(FixedGrammar[name])
                  /\ \A i \in 1..n : l[i + 1].tokenType = FixedGrammar[name][i]
                  /\ name = "theme" =>
                        \A i \in 1..n : l[i + 1].tokenType = CtkOption
                                            => l[i + 1].value \in ThemeSwitches
               THEN IF n = Len(FixedGrammar[name]) THEN "complete" ELSE "prefix"
               ELSE "ungrammatical"
          [] l[1].tokenType = CtkWord /\ name \in VarArgsNames
                /\ \A i \in 1..Len(l) : ~l[i].err ->
               IF n >= 1 /\ IsLineEnd(l[Len(l)])
               THEN IF n >= 2 THEN "complete" ELSE "ungrammatical"
               ELSE "prefix"
          [] OTHER -> "ungrammatical"

\* The histories after a Scan call that returned res while the command was
\* being parsed (atCommand: Parse's own loop made the call).
HistoryAfter(res, atCommand) ==
    IF ~res.err /\ res.token \in Insignificant
    THEN UNCHANGED <<consumed, line, grammatical>>
    ELSE /\ consumed' = Append(consumed, KindOf(res))
         /\ IF grammatical \in {"ungrammatical", "broken"}
               \/ (atCommand /\ ~res.err /\ res.token.tokenType \in {CtkTerminator, CtkEOF})
            THEN UNCHANGED <<line, grammatical>>
            ELSE IF res.err
            THEN /\ grammatical' = "broken"
                 /\ line' = IF line = <<>> THEN <<>> ELSE <<line[1]>>
            ELSE LET l == Append(line, res.token)
                 IN  /\ grammatical' = LineStatus(l)
                     /\ line' = CASE LineStatus(l) # "ungrammatical" -> l
                                   [] LineStatus(l) = "ungrammatical" /\ Len(l) = 1 -> l
                                   [] OTHER -> <<l[1], l[Len(l)]>>

(***************************************************************************)
(* Actions.                                                                *)
(***************************************************************************)
\* The caller calls Parse.
ParseCall ==
    /\ call.pc \in {"Idle", "Ready"}
    /\ call' = NewCall
    /\ prev' = Outcome(call)
    /\ consumed' = <<>>
    /\ line' = <<>>
    /\ grammatical' = "blank"
    /\ discarded' = <<>>
    /\ UNCHANGED <<scanner, inputSource, twinVars>>

\* A Scan call made by Parse's own loop.
ScanInParse ==
    /\ call.pc = "Parse"
    /\ \E res \in Scan(scanner, Vocabulary) :
          /\ scanner' = Scanned(scanner, res)
          /\ call' = IF scanSkips(res) THEN call ELSE Parse(inputSource, call, res)
          /\ HistoryAfter(res, TRUE)
    /\ UNCHANGED <<inputSource, discarded, prev, twinVars>>

\* A Scan call made by parseCommand's loop.
ScanInParseCommand ==
    /\ call.pc = "parseCommand"
    /\ \E res \in Scan(scanner, Vocabulary) :
          /\ scanner' = Scanned(scanner, res)
          /\ call' = IF scanSkips(res) THEN call
                     ELSE ParseTail(parseCommandArgument(inputSource, call, res))
          /\ HistoryAfter(res, FALSE)
    /\ UNCHANGED <<inputSource, discarded, prev, twinVars>>

\* A Scan call made by parseVarArgsCommand's loop.
ScanInParseVarArgsCommand ==
    /\ call.pc = "parseVarArgsCommand"
    /\ \E res \in Scan(scanner, Vocabulary) :
          /\ scanner' = Scanned(scanner, res)
          /\ call' = IF scanSkips(res) THEN call
                     ELSE ParseTail(parseVarArgsCommand(inputSource, call, res))
          /\ HistoryAfter(res, FALSE)
    /\ UNCHANGED <<inputSource, discarded, prev, twinVars>>

\* A Scan call made by recovery.
ScanInDiscard ==
    /\ call.pc = "discardTokensUntilNextCommand"
    /\ \E res \in Scan(scanner, Vocabulary) :
          /\ scanner' = Scanned(scanner, res)
          /\ call' = IF scanSkips(res) THEN call
                     ELSE discardTokensUntilNextCommand(call, res)
          /\ discarded' = IF ~res.err /\ res.token \in Insignificant THEN discarded
                          ELSE Append(discarded, KindOf(res))
    /\ UNCHANGED <<inputSource, consumed, line, grammatical, prev, twinVars>>

(***************************************************************************)
(* Several parsers side by side, each created on a stream of its own,      *)
(* their Parse calls and the Scan calls inside them interleaved at will.   *)
(***************************************************************************)
Parsers == {1, 2}

\* The caller of parser p has been told of the end of the input.
Told(p) == results[p] # <<>> /\ results[p][Len(results[p])].eof

\* The caller of parser p calls Parse, unless it has been told eof.
TwinParseCall(p) ==
    /\ calls[p].pc \in {"Idle", "Ready"}
    /\ ~Told(p)
    /\ calls' = [calls EXCEPT ![p] = Entry(@)]
    /\ starts' = [starts EXCEPT ![p] = scanners[parsers[p].scanner].pos]
    /\ UNCHANGED <<parsers, scanners, results, soloVars>>

\* A Scan call made by parser p, in whichever loop its Parse call is.
TwinScan(p) ==
    /\ calls[p].pc \notin {"Idle", "Ready"}
    /\ LET s == parsers[p].scanner
           res == ScanStream(scanners[s])
           frame == Step(parsers[p].inputSource, calls[p], res)
       IN  /\ scanners' = [scanners EXCEPT ![s] = ScannedStream(@)]
           /\ calls' = [calls EXCEPT ![p] = frame]
           /\ results' = IF frame.pc = "Ready"
                         THEN [results EXCEPT ![p] = Append(@, Result(frame))]
                         ELSE results
    /\ UNCHANGED <<parsers, starts, soloVars>>

InputSources == {"", "grvrc"}

\* The tokens of the streams given in advance.
TwinTokens ==
    WordTokens({addtabCommand, addviewCommand, "a"}) \cup {TerminatorToken}
        \cup Insignificant

Streams(n) == UNION { [1..m -> TwinTokens] : m \in 0..n }

\* No parser created on a stream given in advance is in use.
NoTwins ==
    /\ parsers = [p \in Parsers |-> NewConfigParser(p, "")]
    /\ scanners = [p \in Parsers |-> NewConfigScanner(<<>>)]
    /\ calls = [p \in Parsers |-> [NewCall EXCEPT !.pc = "Idle"]]
    /\ results = [p \in Parsers |-> <<>>]
    /\ starts = [p \in Parsers |-> 1]

InitParser ==
    /\ inputSource \in InputSources
    /\ call = [NewCall EXCEPT !.pc = "Idle"]
    /\ consumed = <<>>
    /\ line = <<>>
    /\ grammatical = "blank"
    /\ discarded = <<>>
    /\ prev = "none"

\* Any stream, and a scanner that may fail.
Init ==
    /\ InitParser
    /\ scanner = [eof |-> FALSE, budget |-> -1, mayFail |-> TRUE]
    /\ NoTwins

Next ==
    \/ ParseCall
    \/ ScanInParse
    \/ ScanInParseCommand
    \/ ScanInParseVarArgsCommand
    \/ ScanInDiscard

Spec == Init /\ [][Next]_vars

\* Streams of at most MaxStream tokens before EndOfInput, read by a scanner
\* that never fails; the caller keeps calling Parse.
InitFinite ==
    /\ InitParser
    /\ scanner = [eof |-> FALSE, budget |-> MaxStream, mayFail |-> FALSE]
    /\ NoTwins

SpecFinite == InitFinite /\ [][Next]_vars /\ WF_vars(Next)

\* Two parsers: parser 1 created on a stream of at most MaxTwin tokens,
\* parser 2 on what is left of that stream after some of its tokens, each
\* with a source label of its own.
InitTwin ==
    /\ \E stream \in Streams(MaxTwin) : \E d \in 0..Len(stream) :
          scanners = [p \in Parsers |->
                         NewConfigScanner(IF p = 1 THEN stream
                                          ELSE SubSeq(stream, d + 1, Len(stream)))]
    /\ \E labels \in [Parsers -> InputSources] :
          parsers = [p \in Parsers |-> NewConfigParser(p, labels[p])]
    /\ calls = [p \in Parsers |-> [NewCall EXCEPT !.pc = "Idle"]]
    /\ results = [p \in Parsers |-> <<>>]
    /\ starts = [p \in Parsers |-> 1]
    /\ inputSource = ""
    /\ call = [NewCall EXCEPT !.pc = "Idle"]
    /\ consumed = <<>>
    /\ line = <<>>
    /\ grammatical = "blank"
    /\ discarded = <<>>
    /\ prev = "none"
    /\ scanner = [eof |-> FALSE, budget |-> 0, mayFail |-> FALSE]

NextTwin ==
    \E p \in Parsers : TwinParseCall(p) \/ TwinScan(p)

SpecTwin == InitTwin /\ [][NextTwin]_vars

\* The tokens of the streams of several lines: a Word that is a command name
\* but for its case, command names, an argument, an option, line ends and
\* white space.
LineTokens ==
    WordTokens({"SET", setCommand, quitCommand, "a"})
        \cup {Tok(CtkOption, "--name", FALSE), TerminatorToken,
              Tok(CtkWhiteSpace, " ", FALSE)}

\* Parser 1 created on a stream of at most MaxLines tokens, with either
\* source label; parser 2 on an empty stream.
InitLines ==
    /\ \E stream \in UNION { [1..m -> LineTokens] : m \in 0..MaxLines } :
          scanners = [p \in Parsers |->
                         NewConfigScanner(IF p = 1 THEN stream ELSE <<>>)]
    /\ \E label \in InputSources :
          parsers = [p \in Parsers |-> NewConfigParser(p, IF p = 1 THEN label ELSE "")]
    /\ calls = [p \in Parsers |-> [NewCall EXCEPT !.pc = "Idle"]]
    /\ results = [p \in Parsers |-> <<>>]
    /\ starts = [p \in Parsers |-> 1]
    /\ inputSource = ""
    /\ call = [NewCall EXCEPT !.pc = "Idle"]
    /\ consumed = <<>>
    /\ line = <<>>
    /\ grammatical = "blank"
    /\ discarded = <<>>
    /\ prev = "none"
    /\ scanner = [eof |-> FALSE, budget |-> 0, mayFail |-> FALSE]

SpecLines == InitLines /\ [][NextTwin]_vars

(***************************************************************************)
(* Vocabulary of the properties.                                           *)
(***************************************************************************)
Range(f) == { f[i] : i \in DOMAIN f }

\* The last Parse call has returned.
Done == call.pc = "Ready"

IsEndKind(k) == k \in {CtkTerminator, CtkEOF}

\* The Terminators of blank lines read before the command position.
Blanks ==
    Cardinality({ k \in 1..Len(consumed) :
                    \A i \in 1..k : consumed[i] = CtkTerminator })

\* What the call read from the command position on, while parsing.
AfterBlanks == SubSeq(consumed, Blanks + 1, Len(consumed))

\* What the call read from the command position on, recovery included.
Read == AfterBlanks \o discarded

ScannerFailed == "ScanError" \in Range(consumed) \cup Range(discarded)

\* The token at command position is a Word.
WordAtCommandPosition == line # <<>> /\ line[1].tokenType = CtkWord

Max(S) == CHOOSE x \in S : \A y \in S : y <= x

\* The value of the last (option, value) pair of a theme line that carries
\* the switch, NilToken when none does.
LastValue(l, switch) ==
    LET at == { i \in {2, 4, 6, 8} : i < Len(l) /\ l[i].value = switch }
    IN  IF at = {} THEN NilToken ELSE l[Max(at) + 1]

\* The command a complete line l stands for.
ExpectedCommand(l) ==
    LET name == l[1].value
    IN  CASE name = "set" ->
               [type |-> "SetCommand", variable |-> l[2], value |-> l[3]]
          [] name = "theme" ->
               [type |-> "ThemeCommand",
                name |-> LastValue(l, "--name"),
                component |-> LastValue(l, "--component"),
                bgcolor |-> LastValue(l, "--bgcolor"),
                fgcolor |-> LastValue(l, "--fgcolor")]
          [] name = "map" ->
               [type |-> "MapCommand", view |-> l[2], from |-> l[3], to |-> l[4]]
          [] name = "unmap" ->
               [type |-> "UnmapCommand", view |-> l[2], from |-> l[3]]
          [] name = "q" -> [type |-> "QuitCommand"]
          [] name = "addtab" -> [type |-> "NewTabCommand", tabName |-> l[2]]
          [] name = "rmtab" -> [type |-> "RemoveTabCommand"]
          [] name = "addview" ->
               [type |-> "AddViewCommand", view |-> l[2],
                args |-> SubSeq(l, 3, Len(l) - 1)]
          [] name \in {"split", "hsplit", "vsplit"} ->
               [type |-> "SplitViewCommand",
                orientation |-> CASE name = "split" -> CoDynamic
                                  [] name = "hsplit" -> CoHorizontal
                                  [] name = "vsplit" -> CoVertical,
                view |-> l[2], args |-> SubSeq(l, 3, Len(l) - 1)]

(***************************************************************************)
(* C1.  A Parse call that returns an error, the scanner not failing, reads *)
(* nothing of the lines that follow the one the failure was detected on:   *)
(* from the command position on it reads up to the line's end (Terminator  *)
(* or EndOfInput), and once it has read a Terminator it reads no Word,     *)
(* Option or Invalid token after it.                                       *)
(* Fails: when the token that reveals the failure is itself the line's     *)
(* Terminator, recovery goes on to discard the following line.             *)
(***************************************************************************)
C1_FailureConfinedToItsLine ==
    (Done /\ call.err # NilError /\ ~ScannerFailed) =>
        /\ Read # <<>>
        /\ IsEndKind(Read[Len(Read)])
        /\ \A i \in 1..Len(Read) : \A j \in 1..Len(Read) :
              (i < j /\ Read[i] = CtkTerminator) => IsEndKind(Read[j])

(***************************************************************************)
(* C2.  A fixed-arity command is returned only for a line that holds       *)
(* exactly the tokens its grammar expects: after Parse has returned one,   *)
(* the next token in the stream ends the line.                             *)
(* Fails: the command is built from the first tokens of the line and what  *)
(* follows them is never looked at.                                        *)
(***************************************************************************)
C2_FixedArityCommandTakesWholeLine ==
    (prev = "fixed" /\ consumed # <<>>) =>
        consumed[1] \in {CtkTerminator, CtkEOF, "ScanError"}

(***************************************************************************)
(* C3.  When a Scan call fails while Parse reads the command position or   *)
(* a command's arguments, Parse returns the scanner's error there and      *)
(* then: no recovery, no further Scan call.                                *)
(* Fails: a failure met while reading arguments is followed by recovery.   *)
(***************************************************************************)
C3_ScannerFailureReturnsAtOnce ==
    ("ScanError" \in Range(consumed)) =>
        /\ call.pc = "Ready"
        /\ call.err = ScanError
        /\ discarded = <<>>

(***************************************************************************)
(* C4.  A line that satisfies a command's grammar yields the command of    *)
(* the matching variant, its fields the line's argument tokens in order,   *)
(* with no error and eof = false.                                          *)
(***************************************************************************)
C4_GrammaticalLineYieldsItsCommand ==
    (Done /\ grammatical = "complete") =>
        /\ call.command = ExpectedCommand(line)
        /\ call.err = NilError
        /\ ~call.eof

C4_Witness ==
    /\ Done
    /\ grammatical = "complete"
    /\ call.command.type = "MapCommand"
    /\ call.command.from.value = "a"
    /\ call.command.to.value = "b"

\* Where the command position of a stream is: the first token that is not
\* a Terminator, white space or a comment; 0 when there is none.
CommandPosition(stream) ==
    LET at == { i \in 1..Len(stream) :
                  stream[i].tokenType \notin {CtkTerminator, CtkWhiteSpace, CtkComment} }
    IN  IF at = {} THEN 0 ELSE CHOOSE i \in at : \A k \in at : i <= k

\* Where the line that begins at token j ends: at the first Terminator after
\* j, or with the stream when there is none.
LineEnd(stream, j) ==
    LET at == { i \in (j + 1)..Len(stream) : stream[i].tokenType = CtkTerminator }
    IN  IF at = {} THEN Len(stream) ELSE CHOOSE i \in at : \A k \in at : i <= k

\* The stream without the line that begins at its command position.
WithoutFirstLine(stream) ==
    LET j == CommandPosition(stream)
    IN  SubSeq(stream, 1, j - 1) \o SubSeq(stream, LineEnd(stream, j) + 1, Len(stream))

(***************************************************************************)
(* C5.  A stream whose first line begins with a Word that is not, letter   *)
(* for letter, a command name: the first Parse call returns the error      *)
(* naming that Word, no command and eof = false, and leaves the scanner    *)
(* right after the line's Terminator (at the end of the stream when the    *)
(* line has none); the calls after it return, one by one, what the calls   *)
(* on the stream without that line return.                                 *)
(***************************************************************************)
C5_UnknownCommandCostsItsLine ==
    \A p \in Parsers :
        LET stream == scanners[p].stream
            j == CommandPosition(stream)
        IN  (/\ results[p] # <<>>
             /\ j > 0
             /\ stream[j].tokenType = CtkWord
             /\ stream[j].value \notin CommandNames) =>
                /\ results[p][1].err.msg = "Invalid command"
                /\ results[p][1].err.args = <<stream[j].value>>
                /\ results[p][1].command = NilCommand
                /\ ~results[p][1].eof
                /\ (Len(results[p]) = 1 /\ calls[p].pc = "Ready") =>
                      scanners[p].pos = LineEnd(stream, j) + 1
                /\ Tail(results[p]) =
                      ParseAll(parsers[p].inputSource,
                               NewConfigScanner(WithoutFirstLine(stream)),
                               Len(results[p]) - 1)

\* SET a, a new line, q: the error naming SET, then the QuitCommand of the
\* second line, which is all the stream without the first line returns.
C5_Witness ==
    /\ scanners[1].stream = <<Tok(CtkWord, "SET", FALSE), Tok(CtkWord, "a", FALSE),
                              TerminatorToken, Tok(CtkWord, quitCommand, FALSE)>>
    /\ Len(results[1]) = 2
    /\ results[1][1].err.args = <<"SET">>
    /\ results[1][2] = [command |-> [type |-> "QuitCommand"], eof |-> FALSE,
                        err |-> NilError]
    /\ WithoutFirstLine(scanners[1].stream) = <<Tok(CtkWord, quitCommand, FALSE)>>

(***************************************************************************)
(* C6.  After a Parse call that returns a parse error, the scanner not     *)
(* failing, the last token read is a Terminator or EndOfInput: the next    *)
(* call starts at a command boundary.                                      *)
(***************************************************************************)
C6_RecoveryEndsAtCommandBoundary ==
    (Done /\ call.err # NilError /\ ~ScannerFailed) =>
        /\ discarded # <<>>
        /\ IsEndKind(discarded[Len(discarded)])

C6_Witness ==
    /\ Done
    /\ call.err.msg = "Unexpected Option"
    /\ discarded = <<CtkInvalid, CtkWord, CtkTerminator>>

(***************************************************************************)
(* C7.  On a finite stream read by a scanner that does not fail, every     *)
(* Parse call returns, having read at least one token, and the caller that *)
(* keeps calling Parse is eventually told eof = true.                      *)
(***************************************************************************)
C7_CallerReachesEndOfInput ==
    /\ (call.pc # "Ready") ~> (call.pc = "Ready")
    /\ [](Done => consumed # <<>>)
    /\ <>(Done /\ call.eof)

C7_Witness ==
    /\ Done
    /\ call.eof
    /\ call.err = NilError
    /\ prev = "error"
    /\ scanner.budget > 0

(***************************************************************************)
(* C8.  EndOfInput read where a fixed-arity command still expects an       *)
(* argument, the arguments before it being the expected ones: Parse        *)
(* returns "Unexpected EOF", no command, eof = true.                       *)
(***************************************************************************)
C8_EndOfInputInsideCommand ==
    (/\ Done
     /\ WordAtCommandPosition
     /\ line[1].value \in FixedNames
     /\ Len(AfterBlanks) >= 2
     /\ AfterBlanks[Len(AfterBlanks)] = CtkEOF
     /\ Len(AfterBlanks) - 2 < Len(FixedGrammar[line[1].value])
     /\ \A i \in 1..(Len(AfterBlanks) - 2) :
           AfterBlanks[i + 1] = FixedGrammar[line[1].value][i]) =>
        /\ call.err.msg = "Unexpected EOF"
        /\ call.command = NilCommand
        /\ call.eof

C8_Witness ==
    /\ Done
    /\ WordAtCommandPosition
    /\ line[1].value = "map"
    /\ AfterBlanks = <<CtkWord, CtkWord, CtkWord, CtkEOF>>
    /\ call.err.msg = "Unexpected EOF"

(***************************************************************************)
(* C9.  When all that is left of the stream is Terminators, white space    *)
(* and comments, then EndOfInput, one Parse call reads it all and returns  *)
(* no command, eof = true and no error.                                    *)
(***************************************************************************)
C9_BlankInputIsEndOfInput ==
    LET all == consumed \o discarded
    IN  (/\ Done
         /\ all # <<>>
         /\ all[Len(all)] = CtkEOF
         /\ \A i \in 1..(Len(all) - 1) : all[i] = CtkTerminator) =>
            /\ call.command = NilCommand
            /\ call.eof
            /\ call.err = NilError
            /\ discarded = <<>>

C9_Witness ==
    /\ Done
    /\ consumed = <<CtkTerminator, CtkTerminator, CtkEOF>>
    /\ call.eof

(***************************************************************************)
(* C10.  A variable-arity command with no token before the end of its line *)
(* is a usage error naming the command, never a command; one that is       *)
(* returned has the first token after the name as its view and the tokens  *)
(* after that, in order, as its args, and is returned whenever tokens free *)
(* of lexical errors stand there.                                          *)
(***************************************************************************)
C10_VariableArityNeedsAView ==
    /\ (/\ Done
        /\ WordAtCommandPosition
        /\ line[1].value \in VarArgsNames
        /\ Len(AfterBlanks) = 2
        /\ IsEndKind(AfterBlanks[2])) =>
           /\ call.err.msg = "Invalid command. Usage: [VIEW] [ARGS...]"
           /\ call.err.args = <<line[1].value>>
           /\ call.command = NilCommand
    /\ (Done /\ call.command.type \in VarArgsTypes) =>
           /\ grammatical = "complete"
           /\ line[1].value \in VarArgsNames
           /\ call.command.view = line[2]
           /\ call.command.args = SubSeq(line, 3, Len(line) - 1)
    /\ (Done /\ grammatical = "complete" /\ line[1].value \in VarArgsNames) =>
           call.command.type \in VarArgsTypes

C10_Witness ==
    /\ Done
    /\ WordAtCommandPosition
    /\ line[1].value = "vsplit"
    /\ AfterBlanks = <<CtkWord, CtkEOF>>
    /\ call.err.msg = "Invalid command. Usage: [VIEW] [ARGS...]"

(***************************************************************************)
(* C11.  A theme line of four (option, value) pairs whose options are all  *)
(* recognised switches yields, without error, the Theme whose every field  *)
(* is the value of the last pair carrying the field's switch and is unset  *)
(* when no pair carries it: the order of the pairs does not matter, a      *)
(* switch given twice overwrites the earlier value.                        *)
(***************************************************************************)
C11_ThemeLastWriteWins ==
    (Done /\ grammatical = "complete" /\ line[1].value = themeCommand) =>
        /\ call.err = NilError
        /\ ~call.eof
        /\ call.command.type = "ThemeCommand"
        /\ \A p \in {2, 4, 6, 8} :
              LET field == CASE line[p].value = "--name" -> call.command.name
                             [] line[p].value = "--component" -> call.command.component
                             [] line[p].value = "--bgcolor" -> call.command.bgcolor
                             [] line[p].value = "--fgcolor" -> call.command.fgcolor
              IN  (\A q \in {2, 4, 6, 8} : q > p => line[q].value # line[p].value)
                      => field = line[p + 1]
        /\ ("--name" \notin { line[p].value : p \in {2, 4, 6, 8} })
              => call.command.name = NilToken
        /\ ("--component" \notin { line[p].value : p \in {2, 4, 6, 8} })
              => call.command.component = NilToken
        /\ ("--bgcolor" \notin { line[p].value : p \in {2, 4, 6, 8} })
              => call.command.bgcolor = NilToken
        /\ ("--fgcolor" \notin { line[p].value : p \in {2, 4, 6, 8} })
              => call.command.fgcolor = NilToken

\* theme --name a --name b --component a --bgcolor a
C11_Witness ==
    /\ Done
    /\ grammatical = "complete"
    /\ Len(line) = 9
    /\ line[1].value = themeCommand
    /\ line[2].value = "--name" /\ line[3].value = "a"
    /\ line[4].value = "--name" /\ line[5].value = "b"
    /\ line[6].value = "--component"
    /\ line[8].value = "--bgcolor"
    /\ call.command.type = "ThemeCommand"
    /\ call.command.name.value = "b"
    /\ call.command.fgcolor = NilToken

(***************************************************************************)
(* C12.  A theme line of four (option, value) pairs one of whose options   *)
(* is not a recognised switch: Parse returns the error naming the first    *)
(* such option of the line, no command and eof = false, whatever pairs     *)
(* stand before it.                                                        *)
(***************************************************************************)
C12_UnknownThemeOptionIsNamed ==
    (/\ Done
     /\ WordAtCommandPosition
     /\ line[1].value = themeCommand
     /\ AfterBlanks = <<CtkWord>> \o FixedGrammar.theme
     /\ grammatical = "ungrammatical") =>
        /\ Len(line) = 2
        /\ line[2].tokenType = CtkOption
        /\ line[2].value \notin ThemeSwitches
        /\ call.err.msg = "Invalid option for theme command"
        /\ call.err.args = <<line[2].value>>
        /\ call.command = NilCommand
        /\ ~call.eof

\* An unrecognised switch after two recognised pairs.
C12_Witness ==
    /\ Done
    /\ line = <<Tok(CtkWord, themeCommand, FALSE), Tok(CtkOption, "--Name", FALSE)>>
    /\ AfterBlanks = <<CtkWord>> \o FixedGrammar.theme
    /\ call.err.args = <<"--Name">>
    /\ call.command = NilCommand

(***************************************************************************)
(* C13.  Two parsers, each with a scanner and a stream of its own, their   *)
(* Parse calls and the Scan calls inside them interleaved at will: what    *)
(* each parser has returned so far is what it returns when it reads its    *)
(* stream alone.                                                           *)
(***************************************************************************)
C13_InterleavingChangesNothing ==
    \A p \in Parsers :
        results[p] = ParseAll(parsers[p].inputSource,
                              NewConfigScanner(scanners[p].stream),
                              Len(results[p]))

\* Both parsers are inside a Parse call, on different streams, parser 1 in
\* its second call.
C13_Witness ==
    /\ calls[1].pc = "parseVarArgsCommand"
    /\ calls[2].pc = "discardTokensUntilNextCommand"
    /\ results[1] # <<>>
    /\ scanners[1].stream # scanners[2].stream
    /\ parsers[1].inputSource # parsers[2].inputSource

\* What was left of parser p's stream when its last Parse call began.
RemainingAtCall(p) ==
    SubSeq(scanners[p].stream, starts[p], Len(scanners[p].stream))

(***************************************************************************)
(* C14.  Two parsers with the same source label whose last Parse calls     *)
(* began with the same tokens left in their streams: the two calls         *)
(* returned the same command, eof and error and consumed the same number   *)
(* of tokens, whatever either parser read and returned before.             *)
(***************************************************************************)
C14_NoMemoryOfEarlierCalls ==
    \A p \in Parsers : \A q \in Parsers :
        (/\ calls[p].pc = "Ready"
         /\ calls[q].pc = "Ready"
         /\ parsers[p].inputSource = parsers[q].inputSource
         /\ RemainingAtCall(p) = RemainingAtCall(q)) =>
            /\ results[p][Len(results[p])] = results[q][Len(results[q])]
            /\ scanners[p].pos - starts[p] = scanners[q].pos - starts[q]

\* Parser 1 has returned an error for an unknown command, then the error of
\* a command cut short by the end of the input; parser 2 has returned that
\* error from its first call.
C14_Witness ==
    /\ calls[1].pc = "Ready"
    /\ calls[2].pc = "Ready"
    /\ parsers[1].inputSource = parsers[2].inputSource
    /\ RemainingAtCall(1) = RemainingAtCall(2)
    /\ Len(results[1]) = 2
    /\ Len(results[2]) = 1
    /\ results[1][1].err.msg = "Invalid command"
    /\ results[1][2].err.msg = "Unexpected EOF"
    /\ results[2][1].err.msg = "Unexpected EOF"
    /\ scanners[1].pos - starts[1] = 1

(***************************************************************************)
(* C15.  While recovery discards tokens, the command, eof and error that   *)
(* Parse is about to return do not change, and a failing Scan call ends    *)
(* recovery: after a parse failure followed by a scanner failure during    *)
(* recovery, Parse returns the parse error, never the scanner's.           *)
(***************************************************************************)
C15_RecoveryFailureIsSwallowed ==
    /\ [][ (call.pc = "discardTokensUntilNextCommand") =>
             /\ Result(call') = Result(call)
             /\ (discarded' = Append(discarded, "ScanError")) => (call'.pc = "Ready")
         ]_vars
    /\ [](( /\ Done
            /\ discarded # <<>>
            /\ discarded[Len(discarded)] = "ScanError"
            /\ "ScanError" \notin Range(consumed) ) =>
              /\ call.err \notin {NilError, ScanError}
              /\ call.command = NilCommand
              /\ \A i \in 1..(Len(discarded) - 1) : discarded[i] # "ScanError")

\* "theme" cut short by the end of its line, then a Word discarded, then the
\* scanner fails.
C15_Witness ==
    /\ Done
    /\ discarded = <<CtkWord, "ScanError">>
    /\ AfterBlanks = <<CtkWord, CtkOption, CtkTerminator>>
    /\ line[1].value = themeCommand
    /\ call.err.msg = "Expected but got"
    /\ ~call.eof

(***************************************************************************)
(* C16.  An Option token at command position is the error "Unexpected      *)
(* Option" naming the option, an Invalid token there is "Syntax Error";    *)
(* either way Parse returns no command and eof = false, whatever tokens    *)
(* follow, and has read nothing more while parsing.                        *)
(***************************************************************************)
C16_OptionOrInvalidAtCommandPosition ==
    (Done /\ AfterBlanks # <<>> /\ AfterBlanks[1] \in {CtkOption, CtkInvalid}) =>
        /\ line # <<>>
        /\ line[1].tokenType = AfterBlanks[1]
        /\ call.err.msg =
              IF AfterBlanks[1] = CtkOption THEN "Unexpected Option" ELSE "Syntax Error"
        /\ call.err.args =
              IF AfterBlanks[1] = CtkOption THEN <<line[1].value>> ELSE <<>>
        /\ call.err.lexErr = (AfterBlanks[1] = CtkInvalid)
        /\ call.command = NilCommand
        /\ ~call.eof
        /\ Len(AfterBlanks) = 1

\* A recognised theme switch where a command name should stand, after a
\* blank line, with tokens following it.
C16_Witness ==
    /\ Done
    /\ consumed = <<CtkTerminator, CtkOption>>
    /\ line = <<Tok(CtkOption, "--name", FALSE)>>
    /\ call.err.msg = "Unexpected Option"
    /\ discarded = <<CtkWord, CtkWord, CtkTerminator>>

(***************************************************************************)
(* C17.  A variable-arity command, the scanner not failing: parsing reads  *)
(* on from the name up to the first Terminator, EndOfInput or token with a *)
(* lexical error and no further.  Ended by such a token it is "Syntax      *)
(* Error" and no command.  Ended by Terminator or EndOfInput after at      *)
(* least one token, the command holds exactly the tokens in between, of    *)
(* any kind and in order, and nothing is discarded: the next call starts   *)
(* right after the Terminator.                                             *)
(***************************************************************************)
C17_VariableArityReadsToLineEnd ==
    (/\ Done
     /\ WordAtCommandPosition
     /\ line[1].value \in VarArgsNames
     /\ "ScanError" \notin Range(consumed)) =>
        LET n == Len(AfterBlanks)
            stops == {CtkTerminator, CtkEOF, CtkInvalid}
        IN  /\ n >= 2
            /\ AfterBlanks[n] \in stops
            /\ \A i \in 2..(n - 1) : AfterBlanks[i] \notin stops
            /\ (AfterBlanks[n] = CtkInvalid) =>
                  /\ call.err.msg = "Syntax Error"
                  /\ call.command = NilCommand
            /\ (AfterBlanks[n] # CtkInvalid /\ n >= 3) =>
                  /\ call.err = NilError
                  /\ Len(line) = n
                  /\ \A i \in 1..n : line[i].tokenType = AfterBlanks[i]
                  /\ <<call.command.view>> \o call.command.args = SubSeq(line, 2, n - 1)
                  /\ discarded = <<>>

\* addview with an Option and a Word before the Terminator.
C17_Witness ==
    /\ Done
    /\ AfterBlanks = <<CtkWord, CtkOption, CtkWord, CtkTerminator>>
    /\ line[1].value = addviewCommand
    /\ call.command.type = "AddViewCommand"
    /\ call.command.view.tokenType = CtkOption
    /\ call.command.args = <<Tok(CtkWord, "b", FALSE)>>
    /\ discarded = <<>>

\* The stream with its WhiteSpace and Comment tokens removed.
Strip(stream) ==
    SelectSeq(stream, LAMBDA t : t.tokenType \notin {CtkWhiteSpace, CtkComment})

\* The tokens a returned command holds in its fields and arguments.
TokensOf(command) ==
    CASE command.type = "NewTabCommand" -> {command.tabName}
      [] command.type \in VarArgsTypes -> {command.view} \cup Range(command.args)
      [] OTHER -> {}

(***************************************************************************)
(* C18.  WhiteSpace and Comment tokens are transparent: what a parser has  *)
(* returned so far from its stream is what it returns from the stream with *)
(* every WhiteSpace and Comment token removed, and no returned command     *)
(* holds such a token, in a variable-arity argument list or elsewhere.     *)
(***************************************************************************)
C18_WhiteSpaceAndCommentsAreTransparent ==
    \A p \in Parsers :
        /\ results[p] = ParseAll(parsers[p].inputSource,
                                 NewConfigScanner(Strip(scanners[p].stream)),
                                 Len(results[p]))
        /\ \A i \in 1..Len(results[p]) :
              \A t \in TokensOf(results[p][i].command) :
                  t.tokenType \notin {CtkWhiteSpace, CtkComment}

\* addview, white space, a view: the command is returned with the view and
\* no arguments, while parser 2 is busy on a stream of its own.
C18_Witness ==
    /\ Len(scanners[1].stream) = 3
    /\ scanners[1].stream[1].value = addviewCommand
    /\ scanners[1].stream[2].tokenType = CtkWhiteSpace
    /\ scanners[1].stream[3].value = "a"
    /\ scanners[2].stream = <<Tok(CtkWord, "a", FALSE)>>
    /\ results[1] # <<>>
    /\ results[1][1].command.type = "AddViewCommand"
    /\ results[1][1].command.args = <<>>
    /\ calls[2].pc = "discardTokensUntilNextCommand"

(***************************************************************************)
(* C19.  A SplitView that Parse returns has the orientation its command    *)
(* name stands for (split: dynamic, hsplit: horizontal, vsplit: vertical), *)
(* only these three names yield one, and Parse never ends up with the      *)
(* error "Unrecognised command".                                           *)
(***************************************************************************)
C19_SplitOrientationFollowsName ==
    /\ (Done /\ call.command.type = "SplitViewCommand") =>
           /\ WordAtCommandPosition
           /\ line[1].value \in {splitCommand, hsplitCommand, vsplitCommand}
           /\ line[1].value = splitCommand => call.command.orientation = CoDynamic
           /\ line[1].value = hsplitCommand => call.command.orientation = CoHorizontal
           /\ line[1].value = vsplitCommand => call.command.orientation = CoVertical
    /\ (Done /\ grammatical = "complete"
              /\ line[1].value \in {splitCommand, hsplitCommand, vsplitCommand}) =>
           call.command.type = "SplitViewCommand"
    /\ call.err.msg # "Unrecognised command"

C19_Witness ==
    /\ Done
    /\ grammatical = "complete"
    /\ line[1].value = vsplitCommand
    /\ call.command.type = "SplitViewCommand"
    /\ call.command.orientation = CoVertical
    /\ call.command.view.value = "a"

(***************************************************************************)
(* C20.  What a Parse call returns is a command with eof = false and no    *)
(* error, or no command with eof = true, an error, or both; never a        *)
(* command with an error or with eof = true, never nothing at all.  A      *)
(* variable-arity command ended by EndOfInput is returned with eof =       *)
(* false, and the call after it returns eof = true alone.                  *)
(***************************************************************************)
C20_OutcomeShapes ==
    /\ Done =>
          \/ call.command # NilCommand /\ ~call.eof /\ call.err = NilError
          \/ call.command = NilCommand /\ call.eof /\ call.err = NilError
          \/ call.command = NilCommand /\ ~call.eof /\ call.err # NilError
          \/ call.command = NilCommand /\ call.eof /\ call.err # NilError
    /\ (Done /\ call.command.type \in VarArgsTypes
              /\ consumed[Len(consumed)] = CtkEOF) =>
          ~call.eof /\ scanner.eof
    /\ (Done /\ prev = "varargs" /\ consumed[1] = CtkEOF) =>
          call.command = NilCommand /\ call.eof /\ call.err = NilError

\* The call after a variable-arity command that EndOfInput ended.
C20_Witness ==
    /\ Done
    /\ prev = "varargs"
    /\ consumed = <<CtkEOF>>
    /\ call.eof
    /\ call.command = NilCommand

\* The constructor of a fixed-arity command has been called: it returned a
\* command or the one error such a constructor can return.
FixedConstructorCalled(frame) ==
    \/ frame.command.type \in FixedTypes
    \/ frame.err.msg = "Invalid option for theme command"

(***************************************************************************)
(* C21.  The constructor of a fixed-arity command is called with exactly   *)
(* as many tokens as the command's descriptor lists, each of the kind      *)
(* listed at its position, none with a lexical error, none EndOfInput.     *)
(* While parseCommand's loop runs the tokens accumulated are fewer than    *)
(* that and of the listed kinds; the constructor is called in the step     *)
(* that reads the last one; and a call that returns what a fixed-arity     *)
(* constructor returned has read, after the name, the listed kinds and     *)
(* nothing else.  So no constructor reads a token that is not there.       *)
(***************************************************************************)
C21_FixedConstructorGetsItsTokens ==
    /\ [](call.pc = "parseCommand" =>
            LET tokenTypes == call.commandDescriptor.tokenTypes
            IN  /\ ~call.commandDescriptor.varArgs
                /\ Len(call.tokens) < Len(tokenTypes)
                /\ \A i \in 1..Len(call.tokens) :
                      /\ call.tokens[i].tokenType = tokenTypes[i]
                      /\ ~call.tokens[i].err
                      /\ call.tokens[i].tokenType # CtkEOF)
    /\ [][ (call.pc = "parseCommand" /\ FixedConstructorCalled(call')) =>
             LET tokenTypes == call.commandDescriptor.tokenTypes
             IN  /\ Len(call.tokens) = Len(tokenTypes) - 1
                 /\ consumed' = Append(consumed, tokenTypes[Len(tokenTypes)])
         ]_vars
    /\ [](( Done /\ FixedConstructorCalled(call) ) =>
            /\ WordAtCommandPosition
            /\ call.commandDescriptor = commandDescriptors[line[1].value]
            /\ AfterBlanks = <<CtkWord>> \o call.commandDescriptor.tokenTypes
            /\ CtkEOF \notin Range(AfterBlanks)
            /\ CtkInvalid \notin Range(AfterBlanks))

\* unmap a b
C21_Witness ==
    /\ Done
    /\ call.command.type = "UnmapCommand"
    /\ call.command.view.value = "a"
    /\ call.command.from.value = "b"
    /\ AfterBlanks = <<CtkWord, CtkWord, CtkWord>>

====
